---------------------------- MODULE Spec2Model ----------------------------
(***************************************************************************)
(* safeclean: the recursive scanner (scanner.rs), the rule registry        *)
(* (projects.rs), the grouped selector (selector.rs), the cleaner          *)
(* (cleaner.rs) and the top-level flow (main.rs).                          *)
(*                                                                         *)
(* A file name is a sequence of tokens (<<"App", ".csproj">> is the name   *)
(* App.csproj), so that str::starts_with is a prefix test the model can    *)
(* get wrong.  A path is a sequence of names (its components).             *)
(***************************************************************************)
EXTENDS Integers, Sequences, FiniteSets, TLC

\* Number of file-system nodes below the directory that holds the scan root
\* (node 0 is that directory, node 1 the root, nodes 2..MaxNodes the rest).
MaxNodes == 4

VARIABLES
  fs,             \* the file tree: [parent, ent, no_list, no_search]
  enabled_types,  \* scan's enabled_types: HashSet<ProjectType>
  todo,           \* what WalkDir::new(root) has still to yield (node ids)
  found,          \* scan's found: Vec<FoundDir>; afterwards main's found
  skip_prefixes,  \* scan's skip_prefixes: Vec<PathBuf>
  cli,            \* main's cli: dry_run, yes, demo and the category flags
  groups,         \* GroupedSelector::groups
  cursor,         \* GroupedSelector::cursor
  key,            \* the key term.read_key() returned last
  to_delete,      \* main's to_delete
  clean_result,   \* main's result: what cleaner::clean returned
  pc              \* position of the program

scanVars == <<fs, enabled_types, todo, skip_prefixes>>
selVars == <<groups, cursor, key>>
mainVars == <<cli, to_delete, clean_result>>
vars ==
  <<fs, enabled_types, todo, found, skip_prefixes, cli, groups, cursor, key,
    to_delete, clean_result, pc>>

----------------------------------------------------------------------------
(* projects.rs *)

\* ProjectType::all(): the fixed global category order.
ProjectType_all ==
  <<"Rust", "Node", "Python", "JavaMaven", "Gradle", "DotNet", "NextJs", "NuxtJs">>

ProjectType == {ProjectType_all[i] : i \in 1..Len(ProjectType_all)}

\* str::starts_with on names.
name_starts_with(name, pattern) ==
  /\ Len(name) >= Len(pattern)
  /\ SubSeq(name, 1, Len(pattern)) = pattern

\* Path::starts_with taken for path equality.
path_starts_with_equal(path, prefix) == path = prefix

\* Path::starts_with: component-wise prefix.
path_starts_with(path, prefix) ==
  /\ Len(path) >= Len(prefix)
  /\ SubSeq(path, 1, Len(prefix)) = prefix

Nodes == 0..MaxNodes

RECURSIVE PathOf(_)
\* The absolute path of node n: the names from node 0 down to n.
PathOf(n) ==
  IF n = 0 THEN <<fs.ent[0].name>>
  ELSE Append(PathOf(fs.parent[n]), fs.ent[n].name)

RECURSIVE Searchable(_)
\* Node n can be stat-ed and opened by its path: every directory on the way
\* to it (n excluded) grants search permission.
Searchable(n) ==
  IF n = 0 THEN TRUE
  ELSE fs.parent[n] \notin fs.no_search /\ Searchable(fs.parent[n])

\* Path::exists(): the path names a node and can be stat-ed.
path_exists(path) ==
  \E n \in Nodes : PathOf(n) = path /\ Searchable(n)

\* Directory n can be opened and listed.
can_list(n) ==
  fs.ent[n].kind = "dir" /\ Searchable(n) /\ n \notin fs.no_list

\* std::fs::read_dir(path): <<TRUE, names>> on success, <<FALSE, {}>> on error.
read_dir(path) ==
  IF \E n \in Nodes : PathOf(n) = path /\ can_list(n)
  THEN <<TRUE, {fs.ent[m].name :
                 m \in {k \in Nodes \ {0} : PathOf(fs.parent[k]) = path}}>>
  ELSE <<FALSE, {}>>

\* Path::parent(): <<TRUE, parent>> or <<FALSE, <<>>>> (None).
path_parent(path) ==
  IF Len(path) > 1 THEN <<TRUE, SubSeq(path, 1, Len(path) - 1)>>
  ELSE <<FALSE, <<>>>>

has_sibling(path, filename) ==
  LET p == path_parent(path) IN
  IF p[1] THEN path_exists(Append(p[2], filename)) ELSE FALSE

\* has_sibling_matching that takes a parent it cannot list for a match.
has_sibling_matching_fail_open(path, pattern) ==
  LET p == path_parent(path) IN
  IF ~p[1] THEN FALSE
  ELSE LET entries == read_dir(p[2]) IN
       IF ~entries[1] THEN TRUE
       ELSE \E name \in entries[2] : name_starts_with(name, pattern)

has_sibling_matching(path, pattern) ==
  LET p == path_parent(path) IN
  IF ~p[1] THEN FALSE
  ELSE LET entries == read_dir(p[2]) IN
       IF ~entries[1] THEN FALSE
       ELSE \E name \in entries[2] : name_starts_with(name, pattern)

always_valid(path) == TRUE

validate_rust(path) == has_sibling(path, <<"Cargo.toml">>)

validate_node(path) == has_sibling(path, <<"package.json">>)

validate_maven(path) == has_sibling(path, <<"pom.xml">>)

validate_gradle(path) ==
  has_sibling(path, <<"build.gradle">>) \/ has_sibling(path, <<"build.gradle", ".kts">>)

validate_dotnet(path) ==
  \/ has_sibling_matching(path, <<".csproj">>)
  \/ has_sibling_matching(path, <<".fsproj">>)
  \/ has_sibling_matching(path, <<".sln">>)

validate_nextjs(path) == has_sibling_matching(path, <<"next.config">>)

validate_nuxtjs(path) == has_sibling_matching(path, <<"nuxt.config">>)

\* (cleanable.validator)(path): the call through the rule's function pointer.
validator(v, path) ==
  CASE v = "always_valid" -> always_valid(path)
    [] v = "validate_rust" -> validate_rust(path)
    [] v = "validate_node" -> validate_node(path)
    [] v = "validate_maven" -> validate_maven(path)
    [] v = "validate_gradle" -> validate_gradle(path)
    [] v = "validate_dotnet" -> validate_dotnet(path)
    [] v = "validate_nextjs" -> validate_nextjs(path)
    [] v = "validate_nuxtjs" -> validate_nuxtjs(path)

CleanableDir(d, t, v) == [dir_name |-> d, project_type |-> t, validator |-> v]

\* get_cleanable_dirs(): the rule registry, in registry order.
get_cleanable_dirs ==
  << CleanableDir(<<"target">>, "Rust", "validate_rust"),
     CleanableDir(<<"node_modules">>, "Node", "validate_node"),
     CleanableDir(<<".venv">>, "Python", "always_valid"),
     CleanableDir(<<"venv">>, "Python", "always_valid"),
     CleanableDir(<<"__pycache__">>, "Python", "always_valid"),
     CleanableDir(<<".pytest_cache">>, "Python", "always_valid"),
     CleanableDir(<<".mypy_cache">>, "Python", "always_valid"),
     CleanableDir(<<".ruff_cache">>, "Python", "always_valid"),
     CleanableDir(<<".tox">>, "Python", "always_valid"),
     CleanableDir(<<"target">>, "JavaMaven", "validate_maven"),
     CleanableDir(<<"build">>, "Gradle", "validate_gradle"),
     CleanableDir(<<".gradle">>, "Gradle", "validate_gradle"),
     CleanableDir(<<"bin">>, "DotNet", "validate_dotnet"),
     CleanableDir(<<"obj">>, "DotNet", "validate_dotnet"),
     CleanableDir(<<".next">>, "NextJs", "validate_nextjs"),
     CleanableDir(<<".nuxt">>, "NuxtJs", "validate_nuxtjs") >>


----------------------------------------------------------------------------
(* The file tree that scan reads *)

Dir(name) == [kind |-> "dir", name |-> name, len |-> 16]

File(name, len) == [kind |-> "file", name |-> name, len |-> len]

Symlink(name) == [kind |-> "symlink", name |-> name, len |-> 32]

Ecosystems == {"cargo", "node", "python", "dotnet"}

\* The entries a tree of one ecosystem is built from.  File lengths are
\* distinct powers of two, so a sum of lengths tells which files were counted.
Vocab(eco) ==
  CASE eco = "cargo" ->
         {Dir(<<"target">>), Dir(<<"pkg">>),
          File(<<"Cargo.toml">>, 1), File(<<"pom.xml">>, 2)}
    [] eco = "node" ->
         {Dir(<<"node_modules">>), Dir(<<"pkg">>),
          File(<<"package.json">>, 1), Symlink(<<"tsc">>)}
    [] eco = "python" ->
         {Dir(<<".venv">>), Dir(<<"__pycache__">>), Dir(<<"src">>),
          File(<<"a", ".pyc">>, 4)}
    [] eco = "dotnet" ->
         {Dir(<<"bin">>), Dir(<<"pkg">>),
          File(<<"App", ".csproj">>, 1), File(<<".csproj", ".user">>, 2)}

\* Cli (main.rs): the flags the model follows, none of them given.
NoFlags ==
  [dry_run |-> FALSE, yes |-> FALSE, demo |-> FALSE,
   rust |-> FALSE, node |-> FALSE, python |-> FALSE, java |-> FALSE,
   gradle |-> FALSE, dotnet |-> FALSE, next |-> FALSE, nuxt |-> FALSE]

\* get_enabled_types without its default: no flag, no category.
get_enabled_types_no_default(c) ==
  (IF c.rust THEN {"Rust"} ELSE {})
    \cup (IF c.node THEN {"Node"} ELSE {})
    \cup (IF c.python THEN {"Python"} ELSE {})
    \cup (IF c.java THEN {"JavaMaven"} ELSE {})
    \cup (IF c.gradle THEN {"Gradle"} ELSE {})
    \cup (IF c.dotnet THEN {"DotNet"} ELSE {})
    \cup (IF c.next THEN {"NextJs"} ELSE {})
    \cup (IF c.nuxt THEN {"NuxtJs"} ELSE {})

\* get_enabled_types (main.rs)
get_enabled_types(c) ==
  LET any_specified ==
        c.rust \/ c.node \/ c.python \/ c.java \/ c.gradle \/ c.dotnet \/ c.next \/ c.nuxt
  IN IF ~any_specified
     THEN {ProjectType_all[i] : i \in 1..Len(ProjectType_all)}
     ELSE (IF c.rust THEN {"Rust"} ELSE {})
            \cup (IF c.node THEN {"Node"} ELSE {})
            \cup (IF c.python THEN {"Python"} ELSE {})
            \cup (IF c.java THEN {"JavaMaven"} ELSE {})
            \cup (IF c.gradle THEN {"Gradle"} ELSE {})
            \cup (IF c.dotnet THEN {"DotNet"} ELSE {})
            \cup (IF c.next THEN {"NextJs"} ELSE {})
            \cup (IF c.nuxt THEN {"NuxtJs"} ELSE {})

\* The command lines a scan is run under: no category flag, and --java.
CliChoices == {NoFlags, [NoFlags EXCEPT !.java = TRUE]}

\* The enabled-category sets a scan is run with.
EnabledChoices == {get_enabled_types(c) : c \in CliChoices}

RECURSIVE IsAncestorOrSelf(_, _, _)
\* a is n or an ancestor of n, under the parent function par.
IsAncestorOrSelf(par, a, n) ==
  IF a = n THEN TRUE
  ELSE IF n = 0 THEN FALSE
  ELSE IsAncestorOrSelf(par, a, par[n])

\* The parent functions of the trees on Nodes: node 1, the scan root, lies in
\* node 0, and the nodes are numbered in the order a walk meets them
\* (pre-order, each directory's children in the order its listing yields them).
Shapes ==
  {par \in [Nodes -> 0..(MaxNodes - 1)] :
     /\ par[0] = 0 /\ par[1] = 0
     /\ \A n \in 2..MaxNodes : par[n] < n
     /\ \A n \in 2..MaxNodes : IsAncestorOrSelf(par, par[n], n - 1)}

\* The entries of a tree of shape par: the root and every parent are
\* directories, and sibling names are distinct.
Labellings(par, eco) ==
  {ent \in [Nodes -> Vocab(eco) \cup {Dir(<<"home">>)}] :
     /\ ent[0] = Dir(<<"home">>)
     /\ ent[1].kind = "dir"
     /\ \A n \in 1..MaxNodes : ent[n] \in Vocab(eco)
     /\ \A n \in 2..MaxNodes : ent[par[n]].kind = "dir"
     /\ \A m, n \in 1..MaxNodes :
          (m # n /\ par[m] = par[n]) => ent[m].name # ent[n].name}

\* The permissions: at most one directory withholds the permission to list
\* it (no_list) or to search it (no_search).  The scan has resolved its root
\* (main canonicalizes it), so node 0 can be searched.
Permissions(ent) ==
  LET dirs == {n \in Nodes : ent[n].kind = "dir"} IN
  {[no_list |-> {}, no_search |-> {}]}
    \cup {[no_list |-> {n}, no_search |-> {}] : n \in dirs}
    \cup {[no_list |-> {}, no_search |-> {n}] : n \in dirs \ {0}}

\* The nodes of directory n, in the order read_dir yields them.
children(n) ==
  LET in_n(k) == fs.parent[k] = n
  IN SelectSeq([i \in 1..MaxNodes |-> i], in_n)

\* The node a path names (the paths used are those of nodes).
NodeAt(path) == CHOOSE n \in Nodes : PathOf(n) = path

RECURSIVE walk_node(_), walk_nodes(_)
\* The Ok entries of a walk from node n, pre-order; a directory that cannot be
\* listed yields itself and an Err, which filter_map(|e| e.ok()) drops.
walk_node(n) ==
  <<n>> \o (IF can_list(n) THEN walk_nodes(children(n)) ELSE <<>>)

walk_nodes(ns) ==
  IF ns = <<>> THEN <<>> ELSE walk_node(Head(ns)) \o walk_nodes(Tail(ns))

\* WalkDir::new(path).into_iter().filter_map(|e| e.ok())
WalkDir(path) == walk_node(NodeAt(path))

----------------------------------------------------------------------------
(* scanner.rs *)

FoundDir(path, project_type, size_bytes) ==
  [path |-> path, project_type |-> project_type, size_bytes |-> size_bytes]

RECURSIVE sum_lens(_)
sum_lens(ms) == IF ms = <<>> THEN 0 ELSE Head(ms) + sum_lens(Tail(ms))

\* dir_size with the is_file filter left out.
dir_size_all_entries(path) ==
  LET metadata_ok(n) == Searchable(n)
      entries == SelectSeq(WalkDir(path), metadata_ok)
  IN sum_lens([i \in 1..Len(entries) |-> fs.ent[entries[i]].len])

\* dir_size(path): the lengths of the regular files among the entries of a
\* walk of path whose metadata can be read.
dir_size(path) ==
  LET entries == WalkDir(path)
      metadata_ok(n) == Searchable(n)
      is_file(n) == fs.ent[n].kind = "file"
      files == SelectSeq(SelectSeq(entries, metadata_ok), is_file)
  IN sum_lens([i \in 1..Len(files) |-> fs.ent[files[i]].len])

RECURSIVE cleanable_loop_no_break(_, _, _)
\* The rule loop without its break.
cleanable_loop_no_break(i, path, dir_name) ==
  IF i > Len(get_cleanable_dirs) THEN <<>>
  ELSE LET cleanable == get_cleanable_dirs[i] IN
       IF cleanable.project_type \notin enabled_types
       THEN cleanable_loop_no_break(i + 1, path, dir_name)
       ELSE IF dir_name = cleanable.dir_name /\ validator(cleanable.validator, path)
       THEN <<FoundDir(path, cleanable.project_type, dir_size(path))>>
              \o cleanable_loop_no_break(i + 1, path, dir_name)
       ELSE cleanable_loop_no_break(i + 1, path, dir_name)

RECURSIVE cleanable_loop_ignores_enabled(_, _, _)
\* The rule loop without its test of enabled_types.
cleanable_loop_ignores_enabled(i, path, dir_name) ==
  IF i > Len(get_cleanable_dirs) THEN <<>>
  ELSE LET cleanable == get_cleanable_dirs[i] IN
       IF dir_name = cleanable.dir_name /\ validator(cleanable.validator, path)
       THEN <<FoundDir(path, cleanable.project_type, dir_size(path))>>
       ELSE cleanable_loop_ignores_enabled(i + 1, path, dir_name)

RECURSIVE cleanable_loop(_, _, _)
\* for cleanable in &cleanable_dirs { ... }, from rule i on: what it pushes.
cleanable_loop(i, path, dir_name) ==
  IF i > Len(get_cleanable_dirs) THEN <<>>
  ELSE LET cleanable == get_cleanable_dirs[i] IN
       IF cleanable.project_type \notin enabled_types
       THEN cleanable_loop(i + 1, path, dir_name)
       ELSE IF dir_name = cleanable.dir_name /\ validator(cleanable.validator, path)
       THEN <<FoundDir(path, cleanable.project_type, dir_size(path))>>
       ELSE cleanable_loop(i + 1, path, dir_name)

\* skip_prefixes.iter().any(|prefix| path.starts_with(prefix))
under_skip_prefix(path) ==
  \E i \in 1..Len(skip_prefixes) : path_starts_with(path, skip_prefixes[i])

RECURSIVE insert_desc(_, _)
\* x put after the last element that is not smaller: a stable insertion.
insert_desc(s, x) ==
  IF s = <<>> THEN <<x>>
  ELSE IF Head(s).size_bytes >= x.size_bytes
       THEN <<Head(s)>> \o insert_desc(Tail(s), x)
       ELSE <<x>> \o s

\* scan with the final sort left out.
sort_missing(s) == s

RECURSIVE sort_desc(_)
\* found.sort_by(|a, b| b.size_bytes.cmp(&a.size_bytes)): stable, descending.
sort_desc(s) ==
  IF s = <<>> THEN <<>>
  ELSE insert_desc(sort_desc(SubSeq(s, 1, Len(s) - 1)), s[Len(s)])

RECURSIVE rule_loop_first_name_decides(_, _, _, _, _)
\* The rule loop, were it to stop at the first enabled rule with the
\* directory's name, whether or not its validator passes.
rule_loop_first_name_decides(cleanable_dirs, enabled, i, path, dir_name) ==
  IF i > Len(cleanable_dirs) THEN <<>>
  ELSE LET cleanable == cleanable_dirs[i] IN
       IF cleanable.project_type \notin enabled
       THEN rule_loop_first_name_decides(cleanable_dirs, enabled, i + 1, path, dir_name)
       ELSE IF dir_name = cleanable.dir_name
       THEN IF validator(cleanable.validator, path)
            THEN <<FoundDir(path, cleanable.project_type, dir_size(path))>>
            ELSE <<>>
       ELSE rule_loop_first_name_decides(cleanable_dirs, enabled, i + 1, path, dir_name)

RECURSIVE rule_loop(_, _, _, _, _)
\* for cleanable in &cleanable_dirs { ... } over a given rule list and a
\* given enabled set, from rule i on: what it pushes.
rule_loop(cleanable_dirs, enabled, i, path, dir_name) ==
  IF i > Len(cleanable_dirs) THEN <<>>
  ELSE LET cleanable == cleanable_dirs[i] IN
       IF cleanable.project_type \notin enabled
       THEN rule_loop(cleanable_dirs, enabled, i + 1, path, dir_name)
       ELSE IF dir_name = cleanable.dir_name /\ validator(cleanable.validator, path)
       THEN <<FoundDir(path, cleanable.project_type, dir_size(path))>>
       ELSE rule_loop(cleanable_dirs, enabled, i + 1, path, dir_name)

RECURSIVE scan_walk(_, _, _, _, _)
\* for entry in WalkDir::new(root)... { ... } over the entries still to come,
\* with found fnd and skip_prefixes skip so far: found when the walk is over.
scan_walk(cleanable_dirs, enabled, entries, fnd, skip) ==
  IF entries = <<>> THEN fnd
  ELSE LET e == Head(entries)
           path == PathOf(e)
       IN IF fs.ent[e].kind # "dir"
          THEN scan_walk(cleanable_dirs, enabled, Tail(entries), fnd, skip)
          ELSE IF \E i \in 1..Len(skip) : path_starts_with(path, skip[i])
          THEN scan_walk(cleanable_dirs, enabled, Tail(entries), fnd, skip)
          ELSE LET pushed == rule_loop(cleanable_dirs, enabled, 1, path, fs.ent[e].name)
               IN scan_walk(cleanable_dirs, enabled, Tail(entries), fnd \o pushed,
                            skip \o [i \in 1..Len(pushed) |-> pushed[i].path])

\* scan(root, enabled_types) as a function of the rule list that
\* get_cleanable_dirs() returns: the sorted list it returns.
scan_over(cleanable_dirs, root, enabled) ==
  sort_desc(scan_walk(cleanable_dirs, enabled, WalkDir(root), <<>>, <<>>))

\* main's result before cleaner::clean has been called.
NoResult == [called |-> FALSE, deleted |-> <<>>, failed |-> <<>>]

\* The state at the call scan(&path, &enabled_types).
InitScan ==
  /\ \E eco \in Ecosystems :
     \E par \in Shapes :
     \E ent \in Labellings(par, eco) :
     \E perm \in Permissions(ent) :
       fs = [parent |-> par, ent |-> ent,
             no_list |-> perm.no_list, no_search |-> perm.no_search]
  /\ cli \in CliChoices
  /\ enabled_types = get_enabled_types(cli)
  /\ enabled_types \in EnabledChoices
  /\ todo = WalkDir(PathOf(1))
  /\ found = <<>>
  /\ skip_prefixes = <<>>
  /\ groups = <<>>
  /\ cursor = 0
  /\ key = "none"
  /\ to_delete = <<>>
  /\ clean_result = NoResult
  /\ pc = "scan"

\* The entry the walk yields next.
entry == Head(todo)

\* if !entry.file_type().is_dir() { continue; }
ScanNotDir ==
  /\ pc = "scan" /\ todo # <<>>
  /\ fs.ent[entry].kind # "dir"
  /\ todo' = Tail(todo)
  /\ UNCHANGED <<fs, enabled_types, found, skip_prefixes, pc, selVars, mainVars>>

\* if skip_prefixes.iter().any(...) { continue; }
ScanSkipped ==
  /\ pc = "scan" /\ todo # <<>>
  /\ fs.ent[entry].kind = "dir"
  /\ under_skip_prefix(PathOf(entry))
  /\ todo' = Tail(todo)
  /\ UNCHANGED <<fs, enabled_types, found, skip_prefixes, pc, selVars, mainVars>>

\* The rule loop ends without a match.
ScanNoMatch ==
  /\ pc = "scan" /\ todo # <<>>
  /\ fs.ent[entry].kind = "dir"
  /\ ~under_skip_prefix(PathOf(entry))
  /\ cleanable_loop(1, PathOf(entry), fs.ent[entry].name) = <<>>
  /\ todo' = Tail(todo)
  /\ UNCHANGED <<fs, enabled_types, found, skip_prefixes, pc, selVars, mainVars>>

\* A rule accepts the directory: found.push, skip_prefixes.push, break.
ScanMatch ==
  /\ pc = "scan" /\ todo # <<>>
  /\ fs.ent[entry].kind = "dir"
  /\ ~under_skip_prefix(PathOf(entry))
  /\ LET pushed == cleanable_loop(1, PathOf(entry), fs.ent[entry].name) IN
       /\ pushed # <<>>
       /\ found' = found \o pushed
       /\ skip_prefixes' = skip_prefixes \o [i \in 1..Len(pushed) |-> pushed[i].path]
  /\ todo' = Tail(todo)
  /\ UNCHANGED <<fs, enabled_types, pc, selVars, mainVars>>

\* The walk is over: found.sort_by(...); found
ScanReturn ==
  /\ pc = "scan" /\ todo = <<>>
  /\ found' = sort_desc(found)
  /\ pc' = "scanned"
  /\ UNCHANGED <<scanVars, selVars, mainVars>>

NextScan == ScanNotDir \/ ScanSkipped \/ ScanNoMatch \/ ScanMatch \/ ScanReturn

SpecScan == InitScan /\ [][NextScan]_vars

\* The call of scan on a tree every directory of which can be listed and
\* searched.
InitScanReadable == InitScan /\ fs.no_list = {} /\ fs.no_search = {}

SpecScanReadable == InitScanReadable /\ [][NextScan]_vars

----------------------------------------------------------------------------
(* selector.rs *)

GroupedItem(dir, selected) == [dir |-> dir, selected |-> selected]

Group(project_type, items, collapsed) ==
  [project_type |-> project_type, items |-> items, collapsed |-> collapsed]

\* Group::all_selected
all_selected(g) == \A i \in 1..Len(g.items) : g.items[i].selected

\* Group::none_selected
none_selected(g) == \A i \in 1..Len(g.items) : ~g.items[i].selected

\* toggle_all that flips every item on its own.
toggle_all_each_item(g) ==
  [g EXCEPT !.items =
     [i \in 1..Len(g.items) |-> [g.items[i] EXCEPT !.selected = ~g.items[i].selected]]]

\* Group::toggle_all
toggle_all(g) ==
  LET new_state == ~all_selected(g) IN
  [g EXCEPT !.items =
     [i \in 1..Len(g.items) |-> [g.items[i] EXCEPT !.selected = new_state]]]

\* by_type[pt], were each dir to replace the entry of its type instead of
\* being pushed onto it: the last dir of type pt.
by_type_overwrites(fnd, pt) ==
  LET of_type(d) == d.project_type = pt
      dirs == SelectSeq(fnd, of_type)
  IN IF dirs = <<>> THEN <<>> ELSE <<dirs[Len(dirs)]>>

\* by_type[pt] after the loop of pushes: the dirs of type pt, in input order.
by_type(fnd, pt) ==
  LET of_type(d) == d.project_type = pt IN SelectSeq(fnd, of_type)

RECURSIVE new_groups_keep_empty(_, _)
\* The loop over type_order, were it to push a group for every category,
\* with or without dirs.
new_groups_keep_empty(i, fnd) ==
  IF i > Len(ProjectType_all) THEN <<>>
  ELSE LET pt == ProjectType_all[i]
           dirs == by_type(fnd, pt)
       IN <<Group(pt, [k \in 1..Len(dirs) |-> GroupedItem(dirs[k], TRUE)], FALSE)>>
          \o new_groups_keep_empty(i + 1, fnd)

RECURSIVE new_groups(_, _)
\* for pt in type_order { if let Some(dirs) = by_type.remove(&pt) { ... } },
\* from the i-th type on.
new_groups(i, fnd) ==
  IF i > Len(ProjectType_all) THEN <<>>
  ELSE LET pt == ProjectType_all[i]
           dirs == by_type(fnd, pt)
       IN (IF dirs # <<>>
           THEN <<Group(pt, [k \in 1..Len(dirs) |-> GroupedItem(dirs[k], TRUE)], FALSE)>>
           ELSE <<>>)
          \o new_groups(i + 1, fnd)

\* GroupedSelector::new, were the items to start unselected.
GroupedSelector_new_unselected(fnd) ==
  LET gs == new_groups(1, fnd) IN
  [gi \in 1..Len(gs) |->
     [gs[gi] EXCEPT !.items =
        [k \in 1..Len(gs[gi].items) |-> GroupedItem(gs[gi].items[k].dir, FALSE)]]]

\* GroupedSelector::new: the groups (the cursor starts at 0).
GroupedSelector_new(fnd) == new_groups(1, fnd)

RECURSIVE total_lines(_)
\* GroupedSelector::total_lines
total_lines(gs) ==
  IF gs = <<>> THEN 0
  ELSE (IF Head(gs).collapsed THEN 1 ELSE 1 + Len(Head(gs).items))
       + total_lines(Tail(gs))

GroupHeader(gi) == [at |-> "GroupHeader", gi |-> gi, ii |-> 0]

Item(gi, ii) == [at |-> "Item", gi |-> gi, ii |-> ii]

RECURSIVE cursor_position_from(_, _, _, _)
\* The loop of cursor_position from group gi on, with line lines before it.
\* Groups and items are numbered from 1 here.
cursor_position_from(gs, c, gi, line) ==
  IF gi > Len(gs) THEN GroupHeader(1)
  ELSE IF line = c THEN GroupHeader(gi)
  ELSE IF ~gs[gi].collapsed
       THEN IF c > line /\ c <= line + Len(gs[gi].items)
            THEN Item(gi, c - line)
            ELSE cursor_position_from(gs, c, gi + 1, line + 1 + Len(gs[gi].items))
       ELSE cursor_position_from(gs, c, gi + 1, line + 1)

\* GroupedSelector::cursor_position
cursor_position(gs, c) == cursor_position_from(gs, c, 1, 0)

\* move_up without its test for the first line.
move_up_unclamped(c) == c - 1

\* GroupedSelector::move_up
move_up(c) == IF c > 0 THEN c - 1 ELSE c

\* move_down that stops one line too late.
move_down_off_by_one(gs, c) == IF c < total_lines(gs) THEN c + 1 ELSE c

\* GroupedSelector::move_down
move_down(gs, c) == IF c + 1 < total_lines(gs) THEN c + 1 ELSE c

\* toggle_current, were it to leave the items of a folded group alone.
toggle_current_skips_collapsed(gs, c) ==
  LET p == cursor_position(gs, c) IN
  IF p.at = "GroupHeader"
  THEN IF gs[p.gi].collapsed THEN gs
       ELSE [gs EXCEPT ![p.gi] = toggle_all(gs[p.gi])]
  ELSE [gs EXCEPT ![p.gi].items[p.ii].selected = ~gs[p.gi].items[p.ii].selected]

\* toggle_current, were it to treat an item line as its group's header.
toggle_current_whole_group(gs, c) ==
  LET p == cursor_position(gs, c) IN
  [gs EXCEPT ![p.gi] = toggle_all(gs[p.gi])]

\* GroupedSelector::toggle_current
toggle_current(gs, c) ==
  LET p == cursor_position(gs, c) IN
  IF p.at = "GroupHeader"
  THEN [gs EXCEPT ![p.gi] = toggle_all(gs[p.gi])]
  ELSE [gs EXCEPT ![p.gi].items[p.ii].selected = ~gs[p.gi].items[p.ii].selected]

\* toggle_collapse that also drops the selection of the group it folds.
toggle_collapse_deselects(gs, c) ==
  LET p == cursor_position(gs, c) IN
  IF p.at = "GroupHeader"
  THEN [gs EXCEPT ![p.gi] =
          [collapsed |-> ~gs[p.gi].collapsed,
           project_type |-> gs[p.gi].project_type,
           items |-> [i \in 1..Len(gs[p.gi].items) |->
                        [gs[p.gi].items[i] EXCEPT !.selected = FALSE]]]]
  ELSE gs

\* toggle_collapse, were it to fold the group of the item the cursor is on.
toggle_collapse_from_item(gs, c) ==
  LET p == cursor_position(gs, c) IN
  [gs EXCEPT ![p.gi].collapsed = ~gs[p.gi].collapsed]

\* GroupedSelector::toggle_collapse
toggle_collapse(gs, c) ==
  LET p == cursor_position(gs, c) IN
  IF p.at = "GroupHeader"
  THEN [gs EXCEPT ![p.gi].collapsed = ~gs[p.gi].collapsed]
  ELSE gs

RECURSIVE flat_items(_)
\* self.groups.into_iter().flat_map(|g| g.items)
flat_items(gs) ==
  IF gs = <<>> THEN <<>> ELSE Head(gs).items \o flat_items(Tail(gs))

\* run's result on Enter with the filter left out.
selected_dirs_unfiltered(gs) ==
  LET items == flat_items(gs) IN [i \in 1..Len(items) |-> items[i].dir]

\* run's result on Enter: .filter(|i| i.selected).map(|i| i.dir).collect()
selected_dirs(gs) ==
  LET is_selected(i) == i.selected
      items == SelectSeq(flat_items(gs), is_selected)
  IN [i \in 1..Len(items) |-> items[i].dir]

\* run's result on a cancel key, were it to keep the selection.
cancelled_dirs_keep_selection(gs) == selected_dirs(gs)

\* run's result on Escape or 'q': Ok(Vec::new())
cancelled_dirs(gs) == <<>>

----------------------------------------------------------------------------
(* cleaner.rs *)

\* CleanResult::total_cleaned
total_cleaned(result) ==
  sum_lens([k \in 1..Len(result.deleted) |-> result.deleted[k].size_bytes])

\* clean, were it to give up at the first failure (the ? operator in place
\* of the match): what was deleted before it, and the failure.
clean_stops_at_failure(dirs, removed) ==
  LET errs == {i \in 1..Len(dirs) : ~removed[i]}
      stop == IF errs = {} THEN Len(dirs) + 1
              ELSE CHOOSE i \in errs : \A j \in errs : i <= j
  IN [called |-> TRUE,
      deleted |-> SubSeq(dirs, 1, stop - 1),
      failed |-> IF errs = {} THEN <<>> ELSE <<<<dirs[stop], "io::Error">>>>]

\* cleaner::clean(dirs), where removed[i] tells whether fs::remove_dir_all of
\* the i-th path returned Ok.
clean(dirs, removed) ==
  LET idx == [i \in 1..Len(dirs) |-> i]
      is_ok(i) == removed[i]
      is_err(i) == ~removed[i]
      oks == SelectSeq(idx, is_ok)
      errs == SelectSeq(idx, is_err)
  IN [called |-> TRUE,
      deleted |-> [k \in 1..Len(oks) |-> dirs[oks[k]]],
      failed |-> [k \in 1..Len(errs) |-> <<dirs[errs[k]], "io::Error">>]]

----------------------------------------------------------------------------
(* main.rs, from the list found on: the flags, the selector session, the    *)
(* cleaner                                                                  *)

\* Largest number of entries in main's found.
MaxFound == 3

\* The categories of the entries of found.
InputTypes == {"Rust", "Python", "NuxtJs"}

DirNames == <<"a", "b", "c", "d", "e", "f">>

RECURSIVE Pow2(_)
Pow2(k) == IF k = 0 THEN 1 ELSE 2 * Pow2(k - 1)

\* The lists main can hold in found: distinct paths, sizes descending (scan
\* sorts them), any categories.
FoundLists ==
  UNION {
    {[i \in 1..n |->
        FoundDir(<<<<"home">>, <<DirNames[i]>>>>, types[i], Pow2(n - i))] :
      types \in [1..n -> InputTypes]} :
    n \in 0..MaxFound}

\* No file tree: the scan is over.
NoTree == [parent |-> <<>>, ent |-> <<>>, no_list |-> {}, no_search |-> {}]

\* The state of main when found has been computed (main.rs:247); the demo
\* list is never empty.
InitMain ==
  /\ found \in FoundLists
  /\ \E dry_run, yes, demo \in BOOLEAN :
       cli = [NoFlags EXCEPT !.dry_run = dry_run, !.yes = yes, !.demo = demo]
  /\ cli.demo => found # <<>>
  /\ fs = NoTree
  /\ enabled_types = get_enabled_types(cli)
  /\ todo = <<>>
  /\ skip_prefixes = <<>>
  /\ groups = <<>>
  /\ cursor = 0
  /\ key = "none"
  /\ to_delete = <<>>
  /\ clean_result = NoResult
  /\ pc = "found"

\* if found.is_empty() { ...; return; }
MainNoneFound ==
  /\ pc = "found" /\ found = <<>>
  /\ pc' = "exit_none_found"
  /\ UNCHANGED <<scanVars, found, selVars, mainVars>>

\* if cli.dry_run { ...; return; }
MainDryRun ==
  /\ pc = "found" /\ found # <<>> /\ cli.dry_run
  /\ pc' = "exit_dry_run"
  /\ UNCHANGED <<scanVars, found, selVars, mainVars>>

\* let to_delete = if cli.yes { found }
MainYes ==
  /\ pc = "found" /\ found # <<>> /\ ~cli.dry_run /\ cli.yes
  /\ to_delete' = found
  /\ pc' = "chosen"
  /\ UNCHANGED <<scanVars, found, selVars, cli, clean_result>>

\* let selector = GroupedSelector::new(found); selector.run()
SelectorNew ==
  /\ pc = "found" /\ found # <<>> /\ ~cli.dry_run /\ ~cli.yes
  /\ groups' = GroupedSelector_new(found)
  /\ cursor' = 0
  /\ pc' = "run"
  /\ UNCHANGED <<scanVars, found, key, mainVars>>

\* Key::ArrowUp | Key::Char('k') => self.move_up()
KeyUp ==
  /\ pc = "run"
  /\ key' = "up"
  /\ cursor' = move_up(cursor)
  /\ UNCHANGED <<scanVars, found, groups, mainVars, pc>>

\* Key::ArrowDown | Key::Char('j') => self.move_down()
KeyDown ==
  /\ pc = "run"
  /\ key' = "down"
  /\ cursor' = move_down(groups, cursor)
  /\ UNCHANGED <<scanVars, found, groups, mainVars, pc>>

\* Key::Char(' ') => self.toggle_current()
KeyToggle ==
  /\ pc = "run"
  /\ key' = "toggle"
  /\ groups' = toggle_current(groups, cursor)
  /\ UNCHANGED <<scanVars, found, cursor, mainVars, pc>>

\* Key::Tab => self.toggle_collapse()
KeyCollapse ==
  /\ pc = "run"
  /\ key' = "collapse"
  /\ groups' = toggle_collapse(groups, cursor)
  /\ UNCHANGED <<scanVars, found, cursor, mainVars, pc>>

\* _ => {}
KeyOther ==
  /\ pc = "run"
  /\ key' = "other"
  /\ UNCHANGED <<scanVars, found, groups, cursor, mainVars, pc>>

\* Key::Enter => break; then the selected dirs are returned, unless
\* show_cursor or clear_screen fails (run returns Err, main prints Cancelled).
KeyEnter ==
  /\ pc = "run"
  /\ key' = "enter"
  /\ \E term_ok \in BOOLEAN :
       IF term_ok
       THEN to_delete' = selected_dirs(groups) /\ pc' = "chosen"
       ELSE to_delete' = to_delete /\ pc' = "exit_cancelled"
  /\ UNCHANGED <<scanVars, found, groups, cursor, cli, clean_result>>

\* Key::Escape | Key::Char('q') => return Ok(Vec::new()), unless show_cursor
\* or clear_screen fails.
KeyCancel ==
  /\ pc = "run"
  /\ key' = "cancel"
  /\ \E term_ok \in BOOLEAN :
       IF term_ok
       THEN to_delete' = cancelled_dirs(groups) /\ pc' = "chosen"
       ELSE to_delete' = to_delete /\ pc' = "exit_cancelled"
  /\ UNCHANGED <<scanVars, found, groups, cursor, cli, clean_result>>

\* hide_cursor, render or read_key fails: run returns Err, main prints
\* Cancelled and returns.
TermError ==
  /\ pc = "run"
  /\ pc' = "exit_cancelled"
  /\ UNCHANGED <<scanVars, found, selVars, mainVars>>

\* if to_delete.is_empty() { ...; return; }
MainNothingSelected ==
  /\ pc = "chosen" /\ to_delete = <<>>
  /\ pc' = "exit_nothing_selected"
  /\ UNCHANGED <<scanVars, found, selVars, mainVars>>

\* if cli.demo { ...; return; }
MainDemo ==
  /\ pc = "chosen" /\ to_delete # <<>> /\ cli.demo
  /\ pc' = "exit_demo"
  /\ UNCHANGED <<scanVars, found, selVars, mainVars>>

\* The call of cleaner::clean, were main not to return first when nothing
\* is selected.
MainClean_on_empty ==
  /\ pc = "chosen" /\ ~cli.demo
  /\ \E removed \in [1..Len(to_delete) -> BOOLEAN] :
       clean_result' = clean(to_delete, removed)
  /\ pc' = "cleaned"
  /\ UNCHANGED <<scanVars, found, selVars, cli, to_delete>>

\* The call of cleaner::clean, were main not to return first in demo mode.
MainClean_ignores_demo ==
  /\ pc = "chosen" /\ to_delete # <<>>
  /\ \E removed \in [1..Len(to_delete) -> BOOLEAN] :
       clean_result' = clean(to_delete, removed)
  /\ pc' = "cleaned"
  /\ UNCHANGED <<scanVars, found, selVars, cli, to_delete>>

\* let result = cleaner::clean(to_delete);
MainClean ==
  /\ pc = "chosen" /\ to_delete # <<>> /\ ~cli.demo
  /\ \E removed \in [1..Len(to_delete) -> BOOLEAN] :
       clean_result' = clean(to_delete, removed)
  /\ pc' = "cleaned"
  /\ UNCHANGED <<scanVars, found, selVars, cli, to_delete>>

NextMain ==
  \/ MainNoneFound \/ MainDryRun \/ MainYes \/ SelectorNew
  \/ KeyUp \/ KeyDown \/ KeyToggle \/ KeyCollapse \/ KeyOther
  \/ KeyEnter \/ KeyCancel \/ TermError
  \/ MainNothingSelected \/ MainDemo \/ MainClean

SpecMain == InitMain /\ [][NextMain]_vars

----------------------------------------------------------------------------
(* Properties of scan *)

\* Path a is a strict ancestor of path b.
IsStrictAncestor(a, b) ==
  /\ Len(a) < Len(b)
  /\ \A k \in 1..Len(a) : a[k] = b[k]

\* The last component of a path.
Basename(path) == path[Len(path)]

\* C1: the list scan returns holds no two entries of which one's path is a
\* strict ancestor of the other's.
C1_NoNestedEntries ==
  pc = "scanned" =>
    \A i, j \in 1..Len(found) : ~IsStrictAncestor(found[i].path, found[j].path)

\* C1 witness: a scan has returned a node_modules directory, and below it lies
\* a node_modules directory with a package.json sibling of its own.
C1_Witness ==
  /\ pc = "scanned"
  /\ \E i \in 1..Len(found) : \E n \in Nodes :
       /\ Basename(found[i].path) = <<"node_modules">>
       /\ fs.ent[n].kind = "dir"
       /\ fs.ent[n].name = <<"node_modules">>
       /\ IsStrictAncestor(found[i].path, PathOf(n))
       /\ \E m \in Nodes : /\ m # n
                           /\ fs.parent[m] = fs.parent[n]
                           /\ fs.ent[m].name = <<"package.json">>

\* The basenames every rule of which checks a marker.
MarkerBasenames ==
  {<<"target">>, <<"node_modules">>, <<"build">>, <<".gradle">>, <<"bin">>,
   <<"obj">>, <<".next">>, <<".nuxt">>}

\* The names of the nodes beside node n in its parent directory.
SiblingNames(n) ==
  {fs.ent[m].name : m \in {k \in Nodes \ {0} : k # n /\ fs.parent[k] = fs.parent[n]}}

\* The marker a validator asks for is among the siblings of node n.
MarkerBeside(v, n) ==
  LET sib == SiblingNames(n)
      begins(tok) == \E name \in sib : name[1] = tok
  IN CASE v = "validate_rust" -> <<"Cargo.toml">> \in sib
       [] v = "validate_node" -> <<"package.json">> \in sib
       [] v = "validate_maven" -> <<"pom.xml">> \in sib
       [] v = "validate_gradle" ->
            <<"build.gradle">> \in sib \/ <<"build.gradle", ".kts">> \in sib
       [] v = "validate_dotnet" ->
            begins(".csproj") \/ begins(".fsproj") \/ begins(".sln")
       [] v = "validate_nextjs" -> begins("next.config")
       [] v = "validate_nuxtjs" -> begins("nuxt.config")
       [] OTHER -> FALSE

\* The validator's look at the parent of node n succeeds: the validators for
\* an exact marker name stat the marker's path (the parent must grant search),
\* those for a name prefix list the parent (it must grant listing).
ParentReadable(v, n) ==
  IF v \in {"validate_dotnet", "validate_nextjs", "validate_nuxtjs"}
  THEN fs.parent[n] \notin fs.no_list
  ELSE fs.parent[n] \notin fs.no_search

\* C2: a directory with a marker-checked basename is in scan's output only if
\* the marker of some rule for that basename is among the children of its
\* parent and that rule's validator could read the parent; a validator that
\* cannot read the parent yields no match, and the scan still returns.
C2_MarkerRequired ==
  pc = "scanned" =>
    \A i \in 1..Len(found) :
      Basename(found[i].path) \in MarkerBasenames =>
        LET n == NodeAt(found[i].path) IN
        \E r \in 1..Len(get_cleanable_dirs) :
          /\ get_cleanable_dirs[r].dir_name = fs.ent[n].name
          /\ MarkerBeside(get_cleanable_dirs[r].validator, n)
          /\ ParentReadable(get_cleanable_dirs[r].validator, n)

\* C2 witness: the scan of a root named bin has returned; the root has a
\* .csproj-prefixed sibling but its parent cannot be listed, so the root is
\* not reported, and a bin directory below it, beside a marker, is.
C2_Witness ==
  /\ pc = "scanned"
  /\ fs.no_list = {0}
  /\ fs.ent[1].name = <<"bin">>
  /\ MarkerBeside("validate_dotnet", 1)
  /\ \A i \in 1..Len(found) : found[i].path # PathOf(1)
  /\ \E i \in 1..Len(found) : Basename(found[i].path) = <<"bin">>

\* C8: the list scan returns is sorted by size, descending.
C8_SortedBySizeDesc ==
  pc = "scanned" =>
    \A i, j \in 1..Len(found) :
      i < j => found[i].size_bytes >= found[j].size_bytes

\* C8 witness: scan has returned two entries of different sizes, and the walk
\* had found the larger one second.
C8_Witness ==
  /\ pc = "scanned"
  /\ Len(found) = 2
  /\ found[1].size_bytes > found[2].size_bytes
  /\ skip_prefixes[2] = found[1].path

RECURSIVE SetSum(_, _)
\* The sum of len[m] over the nodes m of set S.
SetSum(S, len) ==
  IF S = {} THEN 0
  ELSE LET m == CHOOSE x \in S : TRUE IN len[m] + SetSum(S \ {m}, len)

RECURSIVE Listable(_, _)
\* Node m lies below node n, and every directory from n down to m's parent
\* grants both listing and search, as does every directory above n.
Listable(n, m) ==
  IF m = 0 \/ m = n THEN FALSE
  ELSE /\ fs.parent[m] \notin fs.no_list \cup fs.no_search
       /\ (\/ fs.parent[m] = n /\ Searchable(n)
           \/ Listable(n, fs.parent[m]))

\* The byte lengths of the regular files in the subtree of node n that can be
\* reached, summed.
SubtreeFileBytes(n) ==
  SetSum({m \in Nodes : fs.ent[m].kind = "file" /\ Listable(n, m)},
         [m \in Nodes |-> fs.ent[m].len])

\* C9: the size_bytes of every entry scan returns is the sum of the byte
\* lengths of the regular files in the subtree at its path; directories,
\* symlinks and what cannot be read add nothing.
C9_SizeIsSubtreeFileBytes ==
  pc = "scanned" =>
    \A i \in 1..Len(found) :
      found[i].size_bytes = SubtreeFileBytes(NodeAt(found[i].path))

\* C9 witness: scan has returned an entry whose subtree holds regular files
\* at two levels, so its size is a sum over files in nested directories.
C9_Witness ==
  /\ pc = "scanned"
  /\ \E i \in 1..Len(found) :
       LET n == NodeAt(found[i].path) IN
       /\ found[i].size_bytes > 0
       /\ \E a, b \in Nodes :
            /\ fs.ent[a].kind = "file" /\ fs.parent[a] = n
            /\ fs.ent[b].kind = "file" /\ fs.parent[b] # n /\ Listable(n, b)

\* The rules that accept the directory at node n, by registry index.
AcceptingRules(n) ==
  {r \in 1..Len(get_cleanable_dirs) :
     /\ get_cleanable_dirs[r].project_type \in enabled_types
     /\ get_cleanable_dirs[r].dir_name = fs.ent[n].name
     /\ validator(get_cleanable_dirs[r].validator, PathOf(n))}

\* C10: a directory has at most one entry in scan's output, and the entry's
\* category is that of the first rule in registry order that is enabled, has
\* the directory's basename and whose validator passes.
C10_FirstMatchWins ==
  pc = "scanned" =>
    /\ \A i, j \in 1..Len(found) : i # j => found[i].path # found[j].path
    /\ \A i \in 1..Len(found) :
         LET acc == AcceptingRules(NodeAt(found[i].path)) IN
         /\ acc # {}
         /\ \E r \in acc :
              /\ \A q \in acc : r <= q
              /\ found[i].project_type = get_cleanable_dirs[r].project_type

\* C10 witness: scan, with Rust and JavaMaven enabled, has returned a target
\* directory that has both a Cargo.toml and a pom.xml sibling, as Rust.
C10_Witness ==
  /\ pc = "scanned"
  /\ {"Rust", "JavaMaven"} \subseteq enabled_types
  /\ \E i \in 1..Len(found) :
       LET n == NodeAt(found[i].path) IN
       /\ fs.ent[n].name = <<"target">>
       /\ {<<"Cargo.toml">>, <<"pom.xml">>} \subseteq SiblingNames(n)
       /\ found[i].project_type = "Rust"

\* A rule list in reverse order.
Reversed(s) == [i \in 1..Len(s) |-> s[Len(s) + 1 - i]]

\* A rule list with the rules at i and j exchanged.
Swapped(s, i, j) == [s EXCEPT ![i] = s[j], ![j] = s[i]]

\* The orders of the registry that scan's result is compared under: as
\* registered, reversed (every two rules the other way round), and with the
\* two target rules exchanged.
RegistryOrders ==
  {get_cleanable_dirs, Reversed(get_cleanable_dirs), Swapped(get_cleanable_dirs, 1, 10)}

\* The (path, category) pairs of a result list.
Pairs(s) == {<<s[i].path, s[i].project_type>> : i \in 1..Len(s)}

\* The registered rules, enabled or not, with the basename of node n whose
\* validator passes.
PassingRules(n) ==
  {r \in 1..Len(get_cleanable_dirs) :
     /\ get_cleanable_dirs[r].dir_name = fs.ent[n].name
     /\ validator(get_cleanable_dirs[r].validator, PathOf(n))}

\* C11 as stated: for every directory at most one registered rule with its
\* basename has a passing validator, and whatever the order of the registry,
\* scan returns the same set of (path, category) pairs.
C11_OrderInsignificant ==
  pc = "scanned" =>
    /\ \A n \in Nodes \ {0} :
         fs.ent[n].kind = "dir" => Cardinality(PassingRules(n)) <= 1
    /\ \A reg \in RegistryOrders :
         Pairs(scan_over(reg, PathOf(1), enabled_types)) = Pairs(found)

\* C11 amended: more than one registered rule passes only for a target
\* directory beside both Cargo.toml and pom.xml; whatever the order of the
\* registry, scan returns the same paths with the same sizes in the same
\* order, and an entry's category differs only where more than one enabled
\* rule accepts the directory.
C11_OrderChangesCategoryOnly ==
  pc = "scanned" =>
    /\ \A n \in Nodes \ {0} :
         (fs.ent[n].kind = "dir" /\ Cardinality(PassingRules(n)) > 1) =>
           /\ fs.ent[n].name = <<"target">>
           /\ {<<"Cargo.toml">>, <<"pom.xml">>} \subseteq SiblingNames(n)
    /\ \A reg \in RegistryOrders :
         LET other == scan_over(reg, PathOf(1), enabled_types) IN
         /\ Len(other) = Len(found)
         /\ \A i \in 1..Len(found) :
              /\ other[i].path = found[i].path
              /\ other[i].size_bytes = found[i].size_bytes
              /\ other[i].project_type # found[i].project_type =>
                   Cardinality(AcceptingRules(NodeAt(found[i].path))) > 1

\* C11 witness: scan has returned a target directory as Rust that the
\* reversed registry reports as JavaMaven.
C11_Witness ==
  /\ pc = "scanned"
  /\ \E i \in 1..Len(found) :
       /\ found[i].project_type = "Rust"
       /\ LET other == scan_over(Reversed(get_cleanable_dirs), PathOf(1), enabled_types)
          IN other[i].path = found[i].path /\ other[i].project_type = "JavaMaven"

\* No category flag is given on the command line.
NoCategoryFlag(c) ==
  ~(c.rust \/ c.node \/ c.python \/ c.java \/ c.gradle \/ c.dotnet \/ c.next \/ c.nuxt)

\* C12 as stated: scan called with the empty set of categories returns what
\* scan of the same tree called with every category returns.
C12_EmptySetMeansAll ==
  pc = "scanned" =>
    scan_over(get_cleanable_dirs, PathOf(1), {})
      = scan_over(get_cleanable_dirs, PathOf(1), ProjectType)

\* C12 amended: a run without a category flag scans with every category
\* enabled (get_enabled_types supplies them all and never yields the empty
\* set), and returns what scan with every category returns; scan itself,
\* called with the empty set, returns no entry.
C12_NoFlagMeansAll ==
  pc = "scanned" =>
    /\ enabled_types # {}
    /\ NoCategoryFlag(cli) =>
         /\ enabled_types = ProjectType
         /\ found = scan_over(get_cleanable_dirs, PathOf(1), ProjectType)
    /\ scan_over(get_cleanable_dirs, PathOf(1), {}) = <<>>

\* C12 witness: a scan run without a category flag has returned entries.
C12_Witness ==
  /\ pc = "scanned"
  /\ NoCategoryFlag(cli)
  /\ found # <<>>

\* Node n can be read: it can be stat-ed, and listed if it is a directory.
ReadableEntry(n) ==
  Searchable(n) /\ (fs.ent[n].kind = "dir" => n \notin fs.no_list)

\* What scan returns when the walk leaves out the entries that cannot be read.
ScanWithoutUnreadable ==
  sort_desc(scan_walk(get_cleanable_dirs, enabled_types,
                      SelectSeq(WalkDir(PathOf(1)), ReadableEntry), <<>>, <<>>))

\* scan goes on until it returns: while the walk lasts a step is possible.
ScanCompletes == pc = "scan" => ENABLED NextScan

\* When the root can be read (the scanner's precondition), no directory that
\* cannot be read is in scan's output.
UnreadableNotMatched ==
  (pc = "scanned" /\ ReadableEntry(1)) =>
    \A i \in 1..Len(found) : ReadableEntry(NodeAt(found[i].path))

\* The entries of scan's output for directories that can be read are those a
\* scan without the unreadable entries returns.
ReadableEvaluatedAlike ==
  pc = "scanned" =>
    LET readable(d) == ReadableEntry(NodeAt(d.path))
    IN SelectSeq(found, readable) = ScanWithoutUnreadable

\* C13: scan runs to completion and returns a list; a directory or file that
\* cannot be read is skipped (it is not matched and adds 0 bytes), and every
\* readable directory outside the unreadable subtrees is evaluated as it would
\* be were the unreadable entries absent.
C13_UnreadableSkipped ==
  /\ ScanCompletes
  /\ UnreadableNotMatched
  /\ C9_SizeIsSubtreeFileBytes
  /\ ReadableEvaluatedAlike

\* C22: once a directory is accepted as a match, the main walk does not
\* descend into it: the entry the walk yields next never lies below a matched
\* directory, so no directory below a match is walked by both the main walk
\* and the size walk of the match.
C22_NoDescentIntoMatch ==
  (pc = "scan" /\ todo # <<>>) =>
    \A i \in 1..Len(skip_prefixes) :
      ~IsStrictAncestor(skip_prefixes[i], PathOf(entry))

\* The paths of the entries of a result list.
FoundPaths(s) == {s[i].path : i \in 1..Len(s)}

\* The directories the main walk yields.
WalkedDirs ==
  LET w == WalkDir(PathOf(1)) IN
  {w[i] : i \in {k \in 1..Len(w) : fs.ent[w[k]].kind = "dir"}}

\* C23: every entry scan returns has a category of the enabled set; the
\* pruned prefixes are the paths of the entries; and a walked directory is
\* reported exactly if an enabled rule accepts it and no directory above it
\* is reported, so a directory only disabled rules accept is neither reported
\* nor pruned, and a match below it is still reported.
C23_OnlyEnabledCategories ==
  pc = "scanned" =>
    /\ \A i \in 1..Len(found) : found[i].project_type \in enabled_types
    /\ {skip_prefixes[i] : i \in 1..Len(skip_prefixes)} = FoundPaths(found)
    /\ \A n \in WalkedDirs :
         PathOf(n) \in FoundPaths(found) <=>
           /\ AcceptingRules(n) # {}
           /\ \A p \in FoundPaths(found) : ~IsStrictAncestor(p, PathOf(n))

\* C23 witness: a scan with only JavaMaven enabled has returned a target
\* directory that lies below a target directory which the Rust rule alone
\* accepts and which is not reported.
C23_Witness ==
  /\ pc = "scanned"
  /\ enabled_types = {"JavaMaven"}
  /\ \E i \in 1..Len(found) : \E n \in Nodes \ {0} :
       /\ IsStrictAncestor(PathOf(n), found[i].path)
       /\ fs.ent[n].name = <<"target">>
       /\ PassingRules(n) # {}
       /\ \A r \in PassingRules(n) : get_cleanable_dirs[r].project_type = "Rust"
       /\ PathOf(n) \notin FoundPaths(found)

----------------------------------------------------------------------------
(* Properties of the selector session and of main *)

\* A step of the session in which the selector handled the key k and went on.
KeyStep(k) == pc = "run" /\ pc' = "run" /\ key' = k

\* The visible lines a group takes.
GroupLines(g) == IF g.collapsed THEN 1 ELSE 1 + Len(g.items)

RECURSIVE LinesBefore(_, _)
\* The visible lines of the groups before group gi: the line of its header.
LinesBefore(gs, gi) ==
  IF gi <= 1 THEN 0 ELSE LinesBefore(gs, gi - 1) + GroupLines(gs[gi - 1])

\* The total visible line count.
VisibleLines(gs) == LinesBefore(gs, Len(gs) + 1)

\* The selected flags of all items, by group and item.
SelectedFlags(gs) ==
  [gi \in 1..Len(gs) |-> [ii \in 1..Len(gs[gi].items) |-> gs[gi].items[ii].selected]]

\* The dirs of the items whose selected flag is true.
SelectedSet(gs) ==
  UNION {{gs[gi].items[ii].dir :
            ii \in {k \in 1..Len(gs[gi].items) : gs[gi].items[k].selected}} :
         gi \in 1..Len(gs)}

\* A group is folded, an item in it is selected and an item is not.
FoldedAndMixed(gs) ==
  \E gi \in 1..Len(gs) :
    /\ gs[gi].collapsed
    /\ \E ii, jj \in 1..Len(gs[gi].items) :
         gs[gi].items[ii].selected /\ ~gs[gi].items[jj].selected

\* C3: once a cancel key (Escape or q) has been read, in whatever state of
\* cursor, selection and folding, the session is over with nothing to delete,
\* and main never calls the cleaner.
C3_CancelDeletesNothing ==
  key = "cancel" =>
    /\ pc \in {"chosen", "exit_nothing_selected", "exit_cancelled"}
    /\ to_delete = <<>>
    /\ ~clean_result.called

\* C3 witness: the program has ended after a cancel key that was pressed with
\* a group folded, an item of it selected and another deselected, and the
\* cursor moved off the first line.
C3_Witness ==
  /\ key = "cancel"
  /\ pc = "exit_nothing_selected"
  /\ cursor > 0
  /\ FoldedAndMixed(groups)

\* The position of a dir in main's found.
IndexInFound(d) == CHOOSE i \in 1..Len(found) : found[i] = d

\* The rank of a category in the fixed category order.
Rank(pt) == CHOOSE i \in 1..Len(ProjectType_all) : ProjectType_all[i] = pt

\* C4: the list the selector returns on Enter holds exactly the entries whose
\* selected flag is true, each once, in the fixed category order and, within
\* a category, in the order of the input list.
C4_ConfirmReturnsSelected ==
  (pc = "chosen" /\ key = "enter") =>
    /\ {to_delete[i] : i \in 1..Len(to_delete)} = SelectedSet(groups)
    /\ \A i, j \in 1..Len(to_delete) :
         i < j =>
           \/ Rank(to_delete[i].project_type) < Rank(to_delete[j].project_type)
           \/ /\ to_delete[i].project_type = to_delete[j].project_type
              /\ IndexInFound(to_delete[i]) < IndexInFound(to_delete[j])

\* C4 witness: Enter has returned a list that leaves a deselected item out,
\* keeps a selected item of a folded group, and whose order differs from the
\* input's (a later category came first in the input).
C4_Witness ==
  /\ pc = "chosen" /\ key = "enter"
  /\ FoldedAndMixed(groups)
  /\ \E i, j \in 1..Len(to_delete) :
       i < j /\ IndexInFound(to_delete[i]) > IndexInFound(to_delete[j])

\* C5: in every state of a session the cursor is a visible line,
\* 0 <= cursor < totalLines, and it is the line of a group header or of an
\* item of an unfolded group.
C5_CursorInRange ==
  pc = "run" =>
    /\ 0 <= cursor /\ cursor < VisibleLines(groups)
    /\ LET p == cursor_position(groups, cursor) IN
       /\ p.gi \in 1..Len(groups)
       /\ IF p.at = "GroupHeader"
          THEN cursor = LinesBefore(groups, p.gi)
          ELSE /\ ~groups[p.gi].collapsed
               /\ p.ii \in 1..Len(groups[p.gi].items)
               /\ cursor = LinesBefore(groups, p.gi) + p.ii

\* C5 witness: the collapse key has folded the last group with the cursor on
\* its header: the lines below the cursor are gone and the cursor is the last
\* visible line.
C5_Witness ==
  /\ pc = "run" /\ key = "collapse"
  /\ cursor = VisibleLines(groups) - 1
  /\ cursor = LinesBefore(groups, Len(groups))
  /\ Len(groups) > 1
  /\ groups[Len(groups)].collapsed

\* C6: the toggle key on a group header sets every item of that group to one
\* value: selected if an item of it was unselected, unselected if all were
\* selected (so a second toggle in a row reselects all of them); the other
\* groups, the folding and the cursor are unchanged.
C6_HeaderToggle ==
  [][KeyStep("toggle") =>
       \A gi \in 1..Len(groups) :
         cursor = LinesBefore(groups, gi) =>
           /\ Len(groups') = Len(groups)
           /\ \A ii \in 1..Len(groups[gi].items) :
                groups'[gi].items[ii] =
                  GroupedItem(groups[gi].items[ii].dir,
                              \E jj \in 1..Len(groups[gi].items) :
                                ~groups[gi].items[jj].selected)
           /\ Len(groups'[gi].items) = Len(groups[gi].items)
           /\ groups'[gi].collapsed = groups[gi].collapsed
           /\ \A hi \in 1..Len(groups) : hi # gi => groups'[hi] = groups[hi]
           /\ cursor' = cursor
           /\ (key = "toggle" /\ none_selected(groups[gi])) => all_selected(groups'[gi])
    ]_vars

\* C6 witness: a toggle key has just been handled with the cursor on the
\* header of a group of several items, which are now all selected (one of
\* them was not before), beside a group that is not all selected.
C6_Witness ==
  /\ pc = "run" /\ key = "toggle"
  /\ \E gi \in 1..Len(groups) :
       /\ cursor = LinesBefore(groups, gi)
       /\ Len(groups[gi].items) > 1
       /\ all_selected(groups[gi])
       /\ \E hi \in 1..Len(groups) : hi # gi /\ ~all_selected(groups[hi])

\* C7: the collapse key on the header of an unfolded group takes exactly that
\* group's item count off the visible line count, on a folded group it adds
\* it, and no item's selected flag changes.
C7_CollapseIsViewOnly ==
  [][KeyStep("collapse") =>
       \A gi \in 1..Len(groups) :
         cursor = LinesBefore(groups, gi) =>
           /\ VisibleLines(groups') =
                IF groups[gi].collapsed
                THEN VisibleLines(groups) + Len(groups[gi].items)
                ELSE VisibleLines(groups) - Len(groups[gi].items)
           /\ SelectedFlags(groups') = SelectedFlags(groups)
    ]_vars

\* C7 witness: the collapse key has folded a group of several items, one
\* selected and one not, with the cursor on its header.
C7_Witness ==
  /\ pc = "run" /\ key = "collapse"
  /\ \E gi \in 1..Len(groups) :
       /\ cursor = LinesBefore(groups, gi)
       /\ groups[gi].collapsed
       /\ ~all_selected(groups[gi]) /\ ~none_selected(groups[gi])

\* C14: right after the selector has been constructed from a non-empty list,
\* before any key, every item is selected, no group is folded, the cursor is
\* 0 and the visible line count is the number of groups plus the number of
\* entries.
C14_FreshSelector ==
  (pc = "run" /\ key = "none") =>
    /\ found # <<>>
    /\ \A gi \in 1..Len(groups) :
         /\ ~groups[gi].collapsed
         /\ \A ii \in 1..Len(groups[gi].items) : groups[gi].items[ii].selected
    /\ cursor = 0
    /\ total_lines(groups) = Len(groups) + Len(found)
    /\ VisibleLines(groups) = Len(groups) + Len(found)

\* C14 witness: a selector has just been constructed from several entries of
\* more than one category.
C14_Witness ==
  /\ pc = "run" /\ key = "none"
  /\ Len(found) > 2
  /\ Len(groups) > 1

\* The categories that occur in main's found.
InputCategories == {found[i].project_type : i \in 1..Len(found)}

\* C15: in every state of a session there is one group for each category of
\* the input and no other, no group is empty, the groups are in the fixed
\* category order whatever the order of the input, and each group holds the
\* input's entries of its category, each once; so no key changes the groups,
\* their order or their items.
C15_GroupsFixed ==
  pc = "run" =>
    /\ {groups[gi].project_type : gi \in 1..Len(groups)} = InputCategories
    /\ \A gi, hi \in 1..Len(groups) :
         gi < hi => Rank(groups[gi].project_type) < Rank(groups[hi].project_type)
    /\ \A gi \in 1..Len(groups) :
         LET g == groups[gi] IN
         /\ Len(g.items) > 0
         /\ {g.items[ii].dir : ii \in 1..Len(g.items)}
              = {found[i] : i \in {k \in 1..Len(found) :
                                     found[k].project_type = g.project_type}}
         /\ \A ii, jj \in 1..Len(g.items) :
              ii < jj => IndexInFound(g.items[ii].dir) < IndexInFound(g.items[jj].dir)

\* C15 witness: keys have been handled in a session whose input lists a later
\* category before an earlier one; a group is folded and an item deselected.
C15_Witness ==
  /\ pc = "run" /\ key \in {"toggle", "collapse"}
  /\ Len(groups) > 1
  /\ Rank(found[1].project_type) > Rank(found[2].project_type)
  /\ \E gi \in 1..Len(groups) : groups[gi].collapsed
  /\ \E gi \in 1..Len(groups) : ~all_selected(groups[gi])

\* The cursor is on the line of item ii of group gi, which is not folded.
OnItemLine(gs, c, gi, ii) ==
  /\ ~gs[gi].collapsed
  /\ ii \in 1..Len(gs[gi].items)
  /\ c = LinesBefore(gs, gi) + ii

\* The collapsed flags of all groups.
CollapsedFlags(gs) == [gi \in 1..Len(gs) |-> gs[gi].collapsed]

\* The dirs of all items, by group and item.
ItemDirs(gs) ==
  [gi \in 1..Len(gs) |-> [ii \in 1..Len(gs[gi].items) |-> gs[gi].items[ii].dir]]

\* C16: the toggle key with the cursor on an item line inverts the selected
\* flag of that item and leaves every other item's flag, every group's
\* collapsed flag and the cursor as they were.
C16_ItemToggle ==
  [][KeyStep("toggle") =>
       \A gi \in 1..Len(groups) : \A ii \in 1..Len(groups[gi].items) :
         OnItemLine(groups, cursor, gi, ii) =>
           /\ SelectedFlags(groups') =
                [hi \in 1..Len(groups) |->
                   [jj \in 1..Len(groups[hi].items) |->
                      IF hi = gi /\ jj = ii
                      THEN ~groups[hi].items[jj].selected
                      ELSE groups[hi].items[jj].selected]]
           /\ CollapsedFlags(groups') = CollapsedFlags(groups)
           /\ ItemDirs(groups') = ItemDirs(groups)
           /\ cursor' = cursor
    ]_vars

\* C16 witness: the toggle key has been handled with the cursor on an item
\* line: that item is now the only unselected one in a group of several.
C16_Witness ==
  /\ pc = "run" /\ key = "toggle"
  /\ \E gi \in 1..Len(groups) : \E ii \in 1..Len(groups[gi].items) :
       /\ OnItemLine(groups, cursor, gi, ii)
       /\ Len(groups[gi].items) > 1
       /\ ~groups[gi].items[ii].selected
       /\ \A jj \in 1..Len(groups[gi].items) :
            jj # ii => groups[gi].items[jj].selected

\* C17: the collapse key with the cursor on an item line changes nothing;
\* with the cursor on a group header it inverts the collapsed flag of that
\* group and of no other, and changes no selected flag and not the cursor.
C17_CollapseFrame ==
  [][KeyStep("collapse") =>
       /\ \A gi \in 1..Len(groups) : \A ii \in 1..Len(groups[gi].items) :
            OnItemLine(groups, cursor, gi, ii) =>
              groups' = groups /\ cursor' = cursor
       /\ \A gi \in 1..Len(groups) :
            cursor = LinesBefore(groups, gi) =>
              /\ CollapsedFlags(groups') =
                   [hi \in 1..Len(groups) |->
                      IF hi = gi THEN ~groups[hi].collapsed ELSE groups[hi].collapsed]
              /\ SelectedFlags(groups') = SelectedFlags(groups)
              /\ ItemDirs(groups') = ItemDirs(groups)
              /\ cursor' = cursor
    ]_vars

\* C17 witness: the collapse key has been handled with the cursor on an item
\* line (it still is on one: the key moves no cursor and had no group to
\* fold), next to a group that an earlier collapse key folded.
C17_Witness ==
  /\ pc = "run" /\ key = "collapse"
  /\ \E gi \in 1..Len(groups) : \E ii \in 1..Len(groups[gi].items) :
       OnItemLine(groups, cursor, gi, ii)
  /\ \E hi \in 1..Len(groups) : groups[hi].collapsed

\* C18: the up key takes one off the cursor when it is above 0 and leaves it
\* at 0 otherwise; the down key adds one when a visible line follows and
\* otherwise leaves the cursor where it is, on the last visible line; neither
\* key wraps around or changes anything else of the selector.
C18_MoveClamped ==
  [][/\ KeyStep("up") =>
          /\ cursor' = (IF cursor > 0 THEN cursor - 1 ELSE 0)
          /\ groups' = groups
     /\ KeyStep("down") =>
          /\ IF cursor + 1 < VisibleLines(groups)
             THEN cursor' = cursor + 1
             ELSE cursor' = cursor /\ cursor = VisibleLines(groups) - 1
          /\ groups' = groups
    ]_vars

\* C18 witness: the down key has been handled and the cursor is on the last
\* visible line of a list of more than two lines.
C18_Witness ==
  /\ pc = "run" /\ key = "down"
  /\ VisibleLines(groups) > 2
  /\ cursor = VisibleLines(groups) - 1

\* C19: when the confirm key is the first key of a session, the selector
\* returns every entry it was constructed with, each once, and nothing else.
C19_ConfirmFirstReturnsAll ==
  [][(pc = "run" /\ key = "none" /\ key' = "enter" /\ pc' = "chosen") =>
       /\ Len(to_delete') = Len(found)
       /\ {to_delete'[i] : i \in 1..Len(to_delete')} = {found[i] : i \in 1..Len(found)}
    ]_vars

\* C19 witness: Enter has returned all of several entries from a selector in
\* its first state (cursor 0, nothing folded), in an order other than the
\* input's.
C19_Witness ==
  /\ pc = "chosen" /\ key = "enter"
  /\ cursor = 0
  /\ \A gi \in 1..Len(groups) : ~groups[gi].collapsed
  /\ Len(found) > 2
  /\ Len(to_delete) = Len(found)
  /\ to_delete # found

\* The position of a dir in main's to_delete.
IndexInToDelete(d) == CHOOSE i \in 1..Len(to_delete) : to_delete[i] = d

\* C20: when clean returns, every entry of its input is in exactly one of
\* deleted and failed, a failed entry is paired with its error, each list
\* keeps the input's order, and total_cleaned is the sum of size_bytes over
\* the deleted entries alone.
C20_CleanPartitions ==
  pc = "cleaned" =>
    LET del == clean_result.deleted
        fai == clean_result.failed
        D == {del[k] : k \in 1..Len(del)}
        F == {fai[k][1] : k \in 1..Len(fai)}
    IN /\ clean_result.called
       /\ D \cup F = {to_delete[i] : i \in 1..Len(to_delete)}
       /\ D \cap F = {}
       /\ Len(del) + Len(fai) = Len(to_delete)
       /\ \A k \in 1..Len(fai) : fai[k][2] = "io::Error"
       /\ \A j, k \in 1..Len(del) :
            j < k => IndexInToDelete(del[j]) < IndexInToDelete(del[k])
       /\ \A j, k \in 1..Len(fai) :
            j < k => IndexInToDelete(fai[j][1]) < IndexInToDelete(fai[k][1])
       /\ total_cleaned(clean_result)
            = SetSum({i \in 1..Len(to_delete) : to_delete[i] \notin F},
                     [i \in 1..Len(to_delete) |-> to_delete[i].size_bytes])

\* C20 witness: clean has returned after a failure on an entry that was
\* followed by entries it deleted; both lists hold entries.
C20_Witness ==
  /\ pc = "cleaned"
  /\ Len(clean_result.failed) > 0
  /\ Len(clean_result.deleted) > 1
  /\ IndexInToDelete(clean_result.failed[1][1])
       < IndexInToDelete(clean_result.deleted[1])
  /\ total_cleaned(clean_result) > 0

\* C21: in a run with the dry-run flag or the demo flag, cleaner::clean is
\* never called, whatever found holds, with or without --yes, and whatever
\* keys the selector reads.
C21_DryRunAndDemoNeverClean ==
  (cli.dry_run \/ cli.demo) => (~clean_result.called /\ pc # "cleaned")

\* C21 witness: a demo run has ended after an interactive session whose
\* Enter returned entries to delete.
C21_Witness ==
  /\ cli.demo /\ ~cli.dry_run /\ ~cli.yes
  /\ pc = "exit_demo"
  /\ key = "enter"
  /\ to_delete # <<>>

\* The selector with group gi unfolded.
Unfolded(gs, gi) == [gs EXCEPT ![gi].collapsed = FALSE]

\* C24: the toggle key on the header of a folded group changes the selected
\* flags of its hidden items as it would were the group unfolded (all to
\* selected if one was not, all to unselected otherwise), and the confirm
\* key returns a hidden item exactly if its flag is set.
C24_ToggleFoldedGroup ==
  [][/\ KeyStep("toggle") =>
          \A gi \in 1..Len(groups) :
            (cursor = LinesBefore(groups, gi) /\ groups[gi].collapsed) =>
              /\ SelectedFlags(groups')
                   = SelectedFlags(toggle_current(Unfolded(groups, gi), cursor))
              /\ \A ii \in 1..Len(groups[gi].items) :
                   groups'[gi].items[ii].selected = ~all_selected(groups[gi])
              /\ groups'[gi].collapsed
     /\ (pc = "run" /\ pc' = "chosen" /\ key' = "enter") =>
          \A gi \in 1..Len(groups) :
            groups[gi].collapsed =>
              \A ii \in 1..Len(groups[gi].items) :
                groups[gi].items[ii].selected
                  <=> (\E k \in 1..Len(to_delete') :
                         to_delete'[k] = groups[gi].items[ii].dir)
    ]_vars

\* C24 witness: the toggle key has just been handled with the cursor on the
\* header of a folded group of several items (the key changes neither cursor
\* nor folding), and its hidden items are now all unselected while another
\* group keeps its selection.
C24_Witness ==
  /\ pc = "run" /\ key = "toggle"
  /\ \E gi \in 1..Len(groups) :
       /\ cursor = LinesBefore(groups, gi)
       /\ groups[gi].collapsed
       /\ Len(groups[gi].items) > 1
       /\ none_selected(groups[gi])
       /\ \E hi \in 1..Len(groups) : hi # gi /\ all_selected(groups[hi])

\* What cleaner::clean was handed: the entries of its two lists.
HandedToClean ==
  {clean_result.deleted[k] : k \in 1..Len(clean_result.deleted)}
    \cup {clean_result.failed[k][1] : k \in 1..Len(clean_result.failed)}

\* C25: what is handed to cleaner::clean are entries of this run's found,
\* each at most once, and never none; without --yes they are the entries
\* whose selected flag was set when the confirm key was read; and the
\* selector is never constructed from an empty list.
C25_OnlyScannedAndSelected ==
  /\ clean_result.called <=> pc = "cleaned"
  /\ pc = "cleaned" =>
       /\ HandedToClean \subseteq {found[i] : i \in 1..Len(found)}
       /\ HandedToClean # {}
       /\ Cardinality(HandedToClean)
            = Len(clean_result.deleted) + Len(clean_result.failed)
       /\ ~cli.yes => (key = "enter" /\ HandedToClean = SelectedSet(groups))
       /\ cli.yes => (key = "none" /\ groups = <<>>)
  /\ pc = "run" => (found # <<>> /\ groups # <<>>)
  /\ groups # <<>> => found # <<>>

\* C25 witness: clean has been called after an interactive session with some
\* but not all of the entries of found.
C25_Witness ==
  /\ pc = "cleaned"
  /\ ~cli.yes
  /\ HandedToClean # {found[i] : i \in 1..Len(found)}
  /\ Cardinality(HandedToClean) > 1

=============================================================================
